---- MODULE Spec2Model ----
(***************************************************************************)
(* A model of easyticket_invoice: the tax helpers compute_gross and        *)
(* compute_taxes (invoice.py), the Invoice registry of tax categories and  *)
(* articles (invoice.py) and the URL fetcher of WeasyRenderer              *)
(* (weasyprint_invoice.py).                                                *)
(*                                                                         *)
(* The three parts share no state.  Each has its own specification         *)
(* (SpecTax, SpecGate, SpecInvoice) over the same variables; a             *)
(* specification leaves the variables of the other parts at their initial  *)
(* values.                                                                 *)
(***************************************************************************)
EXTENDS Integers, Sequences, FiniteSets, TLC

VARIABLES
    call,            \* tax helpers: the arguments of the last call
    ret,             \* tax helpers: what the last call returned or raised
    orig,            \* tax helpers: the triple a round trip started from
    renderer,        \* WeasyRenderer: resources, allow_files, fallback_default, ...
    fetched,         \* WeasyRenderer: the last fetch_url call and its outcome
    calls,           \* WeasyRenderer: every call made to a collaborator, in order
    html,            \* WeasyRenderer: the HTML source given at construction, and render
    tax_categories,  \* Invoice.tax_categories
    articles,        \* Invoice.articles
    last,            \* Invoice: the last method call and its outcome
    caller           \* the code that constructs invoices: its dict of tax categories

vars == <<call, ret, orig, renderer, fetched, calls, html, tax_categories, articles,
          last, caller>>
taxVars == <<call, ret, orig>>
gateVars == <<renderer, fetched, calls, html>>
invoiceVars == <<tax_categories, articles, last, caller>>

(***************************************************************************)
(* Bounds of the model.                                                    *)
(***************************************************************************)
\* amounts are the decimals c * 10^-AmountDigits with |c| <= MaxCoef
MaxCoef == 130
AmountDigits == 3

(***************************************************************************)
(* decimal.Decimal.  A Decimal is modelled by its numerical value, the     *)
(* fraction n/d in lowest terms with d > 0 (Decimal compares by value, so  *)
(* Decimal('1.0') == Decimal('1')).  Sums and products of the amounts and  *)
(* rates used here have far fewer than the 28 significant digits of the    *)
(* default context and are exact in Python as well.                        *)
(***************************************************************************)
RECURSIVE GCD(_, _)
GCD(a, b) == IF b = 0 THEN a ELSE GCD(b, a % b)

Abs(x) == IF x < 0 THEN -x ELSE x

RECURSIVE Pow10(_)
Pow10(k) == IF k = 0 THEN 1 ELSE 10 * Pow10(k - 1)

Norm(n, d) ==
    LET g == GCD(Abs(n), d)
    IN  [n |-> n \div g, d |-> d \div g]

\* Decimal('<c>E-<digits>')
Dec(c, digits) == Norm(c, Pow10(digits))

\* Python's None where a tax rate is expected: no Decimal has denominator 0
None == [n |-> 0, d |-> 0]

\* a quantize argument keeps its coefficient and exponent: Decimal.quantize
\* reads the exponent alone.  Step(5, 2) is Decimal('0.05').
Step(coef, digits) == [coef |-> coef, digits |-> digits]

\* Python's None where a quantize argument is expected
NoQuantize == [coef |-> 0, digits |-> -1]

\* sums and products are formed over the least common denominator, which keeps
\* the integers of the model small
Add(x, y) ==
    LET g == GCD(x.d, y.d)
    IN  Norm(x.n * (y.d \div g) + y.n * (x.d \div g), x.d * (y.d \div g))
Sub(x, y) == Add(x, [n |-> -y.n, d |-> y.d])
Mul(x, y) ==
    LET g1 == GCD(Abs(x.n), y.d)
        g2 == GCD(Abs(y.n), x.d)
    IN  Norm((x.n \div g1) * (y.n \div g2), (x.d \div g2) * (y.d \div g1))
\* x / y for y # 0
Div(x, y) ==
    Mul(x, IF y.n < 0 THEN [n |-> -y.d, d |-> -y.n] ELSE [n |-> y.d, d |-> y.n])
Leq(x, y) ==
    LET g == GCD(x.d, y.d)
    IN  x.n * (y.d \div g) <= y.n * (x.d \div g)
AbsDec(x) == [n |-> Abs(x.n), d |-> x.d]
Zero == Dec(0, 0)
One == Dec(1, 0)

\* a bug: ROUND_HALF_UP, a tie going away from zero
QuantizeHalfUp(x, q) ==
    LET p == Pow10(q.digits)
        m == Abs(x.n) * p
        k == m \div x.d
        r == m - k * x.d
        up == IF 2 * r >= x.d THEN k + 1 ELSE k
    IN  Norm(IF x.n < 0 THEN -up ELSE up, p)

\* x.quantize(q) under the default context (rounding=ROUND_HALF_EVEN): x
\* rounded to the exponent of q, a tie going to the even last digit
Quantize(x, q) ==
    LET p == Pow10(q.digits)
        m == x.n * p
        k == m \div x.d
        r == m - k * x.d
        rounded == IF 2 * r < x.d THEN k
                   ELSE IF 2 * r > x.d THEN k + 1
                   ELSE IF k % 2 = 0 THEN k ELSE k + 1
    IN  Norm(rounded, p)

(***************************************************************************)
(* compute_gross and compute_taxes                                         *)
(***************************************************************************)
Triple(net, taxes, gross) ==
    [raised |-> "", net |-> net, taxes |-> taxes, gross |-> gross]

Raised(error) == [raised |-> error, net |-> Zero, taxes |-> Zero, gross |-> Zero]

NoResult == [raised |-> "no call", net |-> Zero, taxes |-> Zero, gross |-> Zero]

\* a bug: the sum is rounded, not the two summands
compute_gross_round_sum(net, tax_rate, quantize) ==
    LET taxes == Mul(net, tax_rate)
    IN  IF quantize # NoQuantize
        THEN Triple(Quantize(net, quantize), Quantize(taxes, quantize),
                    Quantize(Add(net, taxes), quantize))
        ELSE Triple(net, taxes, Add(net, taxes))

compute_gross(net, tax_rate, quantize) ==
    LET taxes == Mul(net, tax_rate)
        net1 == IF quantize # NoQuantize THEN Quantize(net, quantize) ELSE net
        taxes1 == IF quantize # NoQuantize THEN Quantize(taxes, quantize) ELSE taxes
    IN  Triple(net1, taxes1, Add(net1, taxes1))

\* a bug: the gross value is taken for the net value
compute_taxes_no_division(gross, tax_rate, quantize) ==
    IF tax_rate = None
    THEN IF quantize # NoQuantize
         THEN Triple(Quantize(gross, quantize), Quantize(Zero, quantize),
                     Quantize(gross, quantize))
         ELSE Triple(gross, Zero, gross)
    ELSE compute_gross(gross, tax_rate, quantize)

\* a bug: without a tax rate the net value is returned as it was given
compute_taxes_net_unrounded(gross, tax_rate, quantize) ==
    IF tax_rate = None
    THEN IF quantize # NoQuantize
         THEN Triple(gross, Quantize(Zero, quantize), Quantize(gross, quantize))
         ELSE Triple(gross, Zero, gross)
    ELSE LET divisor == Add(One, tax_rate)
         IN  IF divisor.n = 0
             THEN Raised(IF gross.n = 0 THEN "InvalidOperation" ELSE "DivisionByZero")
             ELSE compute_gross(Div(gross, divisor), tax_rate, quantize)

\* a bug: the error of the division is caught, and the gross value returned
\* as if there were no tax rate
compute_taxes_catches_division(gross, tax_rate, quantize) ==
    IF tax_rate = None \/ Add(One, tax_rate).n = 0
    THEN IF quantize # NoQuantize
         THEN Triple(Quantize(gross, quantize), Quantize(Zero, quantize),
                     Quantize(gross, quantize))
         ELSE Triple(gross, Zero, gross)
    ELSE compute_gross(Div(gross, Add(One, tax_rate)), tax_rate, quantize)

\* The quotient gross / (1 + tax_rate) is kept exact.  Python rounds it to
\* 28 significant digits; within the bounds a quotient that does not terminate
\* is further than that from every rounding tie, so the quantized results are
\* the same.  The calls below always quantize such a quotient.
compute_taxes(gross, tax_rate, quantize) ==
    IF tax_rate = None
    THEN IF quantize # NoQuantize
         THEN Triple(Quantize(gross, quantize), Quantize(Zero, quantize),
                     Quantize(gross, quantize))
         ELSE Triple(gross, Zero, gross)
    ELSE LET divisor == Add(One, tax_rate)
         IN  IF divisor.n = 0
             THEN Raised(IF gross.n = 0 THEN "InvalidOperation" ELSE "DivisionByZero")
             ELSE compute_gross(Div(gross, divisor), tax_rate, quantize)

\* the inputs of the tax helpers
Amounts == {Dec(c, AmountDigits) : c \in -MaxCoef..MaxCoef} \cup {Dec(100, 0)}
TaxRates == {Dec(0, 0), Dec(7, 2), Dec(19, 2), Dec(20, 2), Dec(50, 2), Dec(100, 2)}
Steps == {Step(1, 0), Step(1, 1), Step(1, 2), Step(5, 2), Step(1, 3)}
Quantizations == Steps \cup {NoQuantize}

NoCall == [fn |-> "", amount |-> Zero, tax_rate |-> None, quantize |-> NoQuantize]

TaxInit ==
    /\ call = NoCall
    /\ ret = NoResult
    /\ orig = NoResult

\* The helpers keep no state: a behaviour makes one call, and may hand the
\* gross value of compute_gross back to compute_taxes.
CallComputeGross ==
    /\ call = NoCall
    /\ \E net \in Amounts, tax_rate \in TaxRates, quantize \in Quantizations :
        /\ call' = [fn |-> "compute_gross", amount |-> net, tax_rate |-> tax_rate,
                    quantize |-> quantize]
        /\ ret' = compute_gross(net, tax_rate, quantize)
        /\ orig' = NoResult
        /\ UNCHANGED <<gateVars, invoiceVars>>

\* compute_taxes on any gross value; a quotient is always quantized
CallComputeTaxes ==
    /\ call = NoCall
    /\ \E gross \in Amounts, tax_rate \in TaxRates \cup {None, Dec(-1, 0)},
          quantize \in Quantizations :
        /\ quantize = NoQuantize => tax_rate \in {None, Dec(-1, 0)}
        /\ call' = [fn |-> "compute_taxes", amount |-> gross, tax_rate |-> tax_rate,
                    quantize |-> quantize]
        /\ ret' = compute_taxes(gross, tax_rate, quantize)
        /\ orig' = NoResult
        /\ UNCHANGED <<gateVars, invoiceVars>>

\* compute_taxes on the gross value compute_gross has just returned, with the
\* same tax rate and quantization
RoundTrip ==
    /\ call.fn = "compute_gross"
    /\ call.quantize # NoQuantize
    /\ orig = NoResult
    /\ call' = [fn |-> "compute_taxes", amount |-> ret.gross,
                tax_rate |-> call.tax_rate, quantize |-> call.quantize]
    /\ ret' = compute_taxes(ret.gross, call.tax_rate, call.quantize)
    /\ orig' = ret
    /\ UNCHANGED <<gateVars, invoiceVars>>

TaxNext ==
    \/ CallComputeGross
    \/ CallComputeTaxes
    \/ RoundTrip

(***************************************************************************)
(* WeasyRenderer.fetch_url.  A string is the sequence of its characters,   *)
(* so that startswith and slicing are computed as Python computes them.    *)
(***************************************************************************)
\* how many fetch_url calls a behaviour makes
MaxFetches == 2

\* str.startswith
StartsWith(s, prefix) ==
    /\ Len(s) >= Len(prefix)
    /\ SubSeq(s, 1, Len(prefix)) = prefix

\* s[k:]
SliceFrom(s, k) == SubSeq(s, k + 1, Len(s))

FilePrefix == <<"f", "i", "l", "e", ":", "/", "/">>
ResourcePrefix == <<"r", "e", "s", "o", "u", "r", "c", "e", ":">>
\* the 9 of url[9:]
KeyOffset == 9

LogoKey == <<"l", "o", "g", "o", ".", "p", "n", "g">>
StyleKey == <<"s", "t", "y", "l", "e", ".", "c", "s", "s">>
MissingKey == <<"m", "i", "s", "s", "i", "n", "g", ".", "p", "n", "g">>
EtcPasswd == <<"/", "e", "t", "c", "/", "p", "a", "s", "s", "w", "d">>
ExampleUrl == <<"h", "t", "t", "p", "s", ":", "/", "/", "e", "x", "a", "m", "p", "l",
                "e", ".", "c", "o", "m", "/", "x">>

\* the locators handed to fetch_url
Urls ==
    { FilePrefix \o EtcPasswd,                \* file:///etc/passwd
      FilePrefix \o ResourcePrefix \o LogoKey, \* file://resource:logo.png
      <<"f", "i", "l", "e", ":">> \o EtcPasswd, \* file:/etc/passwd
      ResourcePrefix \o LogoKey,              \* resource:logo.png
      ResourcePrefix \o StyleKey,             \* resource:style.css
      ResourcePrefix \o MissingKey,           \* resource:missing.png
      ResourcePrefix,                         \* resource:
      ResourcePrefix \o FilePrefix \o LogoKey, \* resource:file://logo.png
      <<"R">> \o SliceFrom(ResourcePrefix, 1) \o LogoKey, \* Resource:logo.png
      ExampleUrl,                             \* https://example.com/x
      LogoKey,                                \* logo.png
      <<>> }                                  \* the empty string

\* a value of the resources dict: a descriptor dict (not callable) or a
\* function of one argument (callable)
Descriptor(name) == [callable |-> FALSE, name |-> name]
Producer(name) == [callable |-> TRUE, name |-> name]

\* what a fetch returns: a descriptor of the resources dict, or the result of
\* calling a collaborator fn(arg, **kwargs)
Stored(name) == [source |-> "resources", fn |-> name, arg |-> <<>>, kwargs |-> {}]
ResultOf(invocation) ==
    [source |-> "call", fn |-> invocation.fn, arg |-> invocation.arg,
     kwargs |-> invocation.kwargs]
NoValue == [source |-> "", fn |-> "", arg |-> <<>>, kwargs |-> {}]

Invocation(fn, arg, kwargs) == [fn |-> fn, arg |-> arg, kwargs |-> kwargs]

\* raise ValueError(message % arg)
ValueError(message, arg) == [type |-> "ValueError", message |-> message, arg |-> arg]
NoError == [type |-> "", message |-> "", arg |-> <<>>]

Return(value, invoked) ==
    [kind |-> "return", value |-> value, error |-> NoError, invoked |-> invoked]
Raise(error) ==
    [kind |-> "raise", value |-> NoValue, error |-> error, invoked |-> <<>>]

\* the configurations a renderer is constructed with
ResourceDicts ==
    { <<>>,
      [k \in {LogoKey} |-> Descriptor("logo_descriptor")],
      [k \in {LogoKey} |-> Producer("find_logo")],
      [k \in {LogoKey, StyleKey, FilePrefix \o LogoKey} |->
          IF k = LogoKey THEN Producer("find_logo") ELSE Descriptor("static_descriptor")] }

Renderers ==
    [resources : ResourceDicts, allow_files : BOOLEAN, fallback_default : BOOLEAN,
     url_fetcher : {"None", "custom_fetcher"}, fetcher_args : {{}, {"timeout"}}]

\* WeasyRenderer(string=...): every argument at its default
DefaultRenderer ==
    [resources |-> <<>>, allow_files |-> FALSE, fallback_default |-> FALSE,
     url_fetcher |-> "None", fetcher_args |-> {}]

CallOut(fn, arg, kwargs) ==
    LET c == Invocation(fn, arg, kwargs)
    IN  Return(ResultOf(c), <<c>>)

\* a bug: fallback_default opens file:// as well
file_rule_fallback_opens_files(self, url) ==
    IF ~(self.allow_files \/ self.fallback_default)
    THEN Raise(ValueError("Access denied to local file \"%s\"", url))
    ELSE CallOut("default_url_fetcher", url, self.fetcher_args)

\* the branch of fetch_url for url.startswith('file://')
file_rule(self, url) ==
    IF ~self.allow_files
    THEN Raise(ValueError("Access denied to local file \"%s\"", url))
    ELSE CallOut("default_url_fetcher", url, self.fetcher_args)

\* a bug: the producer is called with the locator, not with the key
resource_rule_producer_gets_url(self, url) ==
    LET key == SliceFrom(url, KeyOffset)
    IN  IF key \notin DOMAIN self.resources
        THEN Raise(ValueError("Resource \"%s\" not found", key))
        ELSE LET value == self.resources[key]
             IN  IF value.callable
                 THEN CallOut(value.name, url, {})
                 ELSE Return(Stored(value.name), <<>>)

\* a bug: the not-found message is given the locator, not the key
resource_rule_not_found_names_url(self, url) ==
    LET key == SliceFrom(url, KeyOffset)
    IN  IF key \notin DOMAIN self.resources
        THEN Raise(ValueError("Resource \"%s\" not found", url))
        ELSE LET value == self.resources[key]
             IN  IF value.callable
                 THEN CallOut(value.name, key, {})
                 ELSE Return(Stored(value.name), <<>>)

\* the branch of fetch_url for url.startswith('resource:')
resource_rule(self, url) ==
    LET key == SliceFrom(url, KeyOffset)
    IN  IF key \notin DOMAIN self.resources
        THEN Raise(ValueError("Resource \"%s\" not found", key))
        ELSE LET value == self.resources[key]
             IN  IF value.callable
                 THEN CallOut(value.name, key, {})
                 ELSE Return(Stored(value.name), <<>>)

\* a bug: allow_files is read where fallback_default is meant
fallback_rule_reads_allow_files(self, url) ==
    IF self.allow_files
    THEN CallOut("default_url_fetcher", url, self.fetcher_args)
    ELSE Raise(ValueError("Invalid url: \"%s\"", url))

\* the last two branches of fetch_url
fallback_rule(self, url) ==
    IF self.fallback_default
    THEN CallOut("default_url_fetcher", url, self.fetcher_args)
    ELSE Raise(ValueError("Invalid url: \"%s\"", url))

\* a bug: the url_fetcher of the object is tried after the file:// rule
fetch_url_file_rule_first(self, url) ==
    IF StartsWith(url, FilePrefix) THEN file_rule(self, url)
    ELSE IF self.url_fetcher # "None"
    THEN CallOut(self.url_fetcher, url, self.fetcher_args)
    ELSE IF StartsWith(url, ResourcePrefix) THEN resource_rule(self, url)
    ELSE fallback_rule(self, url)

fetch_url(self, url) ==
    IF self.url_fetcher # "None"
    THEN CallOut(self.url_fetcher, url, self.fetcher_args)
    ELSE IF StartsWith(url, FilePrefix) THEN file_rule(self, url)
    ELSE IF StartsWith(url, ResourcePrefix) THEN resource_rule(self, url)
    ELSE fallback_rule(self, url)

\* a bug: what a producer returned is kept in the resources dict in place of
\* the producer
resources_after_fetch_memoised(self, url) ==
    LET key == SliceFrom(url, KeyOffset)
    IN  IF /\ self.url_fetcher = "None"
           /\ ~StartsWith(url, FilePrefix)
           /\ StartsWith(url, ResourcePrefix)
           /\ key \in DOMAIN self.resources
        THEN [self.resources EXCEPT ![key] = Descriptor(self.resources[key].name)]
        ELSE self.resources

\* self.resources after fetch_url(url): no branch of fetch_url assigns to self
\* or to the dict, value = value(key) binds a local name
resources_after_fetch(self, url) == self.resources

NotFetched == [n |-> 0, url |-> <<>>, outcome |-> Raise(NoError)]

\* the keyword arguments that name the HTML source
SourceKeys == {"filename", "url", "file_obj", "string"}

\* a Python value: None, or anything else
PyNone == [is_none |-> TRUE, value |-> ""]
Given(value) == [is_none |-> FALSE, value |-> value]

HelloWorld == "<h1>Hello World</h1>Hello you fool!"
SourceValues == {PyNone, Given(""), Given(HelloWorld)}

\* **kwargs of the constructor: any of the four keywords, each with a value
SourceKwargs == UNION {[keys -> SourceValues] : keys \in SUBSET SourceKeys}

\* html_args of the constructor (None becomes the empty dict)
HtmlArgs ==
    { <<>>,
      [k \in {"encoding"} |-> Given("utf-8")],
      [k \in {"encoding", "string"} |-> Given(IF k = "string" THEN "<p/>" ELSE "utf-8")],
      [k \in {"url_fetcher", "filename"} |->
          Given(IF k = "filename" THEN "other.html" ELSE "default_url_fetcher")] }

NoSources == [k \in SourceKeys |-> PyNone]

\* the renderer's life: stage is "none", "init_raised", "constructed",
\* "render_raised" or "rendered"
Html(stage, kwargs, sources, html_args, error, prepared) ==
    [stage |-> stage, kwargs |-> kwargs, sources |-> sources, html_args |-> html_args,
     error |-> error, prepared |-> prepared]

NotConstructed == Html("none", <<>>, NoSources, <<>>, NoError, <<>>)

\* WeasyRenderer.__init__: the four attributes are None unless the keyword is
\* in kwargs, and count is the number of the keywords in kwargs
init(kwargs, html_args) ==
    LET sources == [k \in SourceKeys |-> IF k \in DOMAIN kwargs THEN kwargs[k] ELSE PyNone]
        count == Cardinality(DOMAIN kwargs \cap SourceKeys)
    IN  IF count = 0
        THEN Html("init_raised", kwargs, NoSources, <<>>,
                  ValueError("Either \"filename\", \"url\", \"file_obj\" or \"string\" must be given", <<>>),
                  <<>>)
        ELSE IF count > 1
        THEN Html("init_raised", kwargs, NoSources, <<>>,
                  ValueError("Only one of \"filename\", \"url\", \"file_obj\" or \"string\" is allowed", <<>>),
                  <<>>)
        ELSE Html("constructed", kwargs, sources, html_args, NoError, <<>>)

\* WeasyRenderer.__prepare_html_args, called by render: count is the number of
\* the four attributes that are not None
prepare_html_args(self) ==
    LET kept == DOMAIN self.html_args \ SourceKeys
        set == {k \in SourceKeys : ~self.sources[k].is_none}
        count == Cardinality(set)
    IN  IF count = 0
        THEN [self EXCEPT
                 !.stage = "render_raised",
                 !.error = ValueError("Either \"filename\", \"url\", \"file_obj\" or \"string\" must be given", <<>>)]
        ELSE IF count > 1
        THEN [self EXCEPT
                 !.stage = "render_raised",
                 !.error = ValueError("Only one of \"filename\", \"url\", \"file_obj\" or \"string\" is allowed", <<>>)]
        ELSE [self EXCEPT
                 !.stage = "rendered",
                 !.prepared =
                     [k \in kept \cup set \cup {"url_fetcher"} |->
                         IF k = "url_fetcher" THEN Given("self.fetch_url")
                         ELSE IF k \in set THEN self.sources[k]
                         ELSE self.html_args[k]]]

\* a renderer that is constructed and not used
GateIdle ==
    /\ renderer = DefaultRenderer
    /\ fetched = NotFetched
    /\ calls = <<>>
    /\ html = init([k \in {"string"} |-> Given(HelloWorld)], <<>>)

\* WeasyRenderer.__init__
GateInit ==
    /\ renderer \in Renderers
    /\ fetched = NotFetched
    /\ calls = <<>>
    /\ html = init([k \in {"string"} |-> Given(HelloWorld)], <<>>)

\* the rendering engine calls renderer.fetch_url(url)
FetchUrl ==
    /\ fetched.n < MaxFetches
    /\ \E url \in Urls :
        /\ LET outcome == fetch_url(renderer, url)
           IN  /\ fetched' = [n |-> fetched.n + 1, url |-> url, outcome |-> outcome]
               /\ calls' = calls \o outcome.invoked
        /\ renderer' = [renderer EXCEPT !.resources = resources_after_fetch(renderer, url)]
        /\ UNCHANGED <<html, taxVars, invoiceVars>>

GateNext == FetchUrl

\* no renderer is constructed yet
RenderInit ==
    /\ renderer = DefaultRenderer
    /\ fetched = NotFetched
    /\ calls = <<>>
    /\ html = NotConstructed

\* WeasyRenderer(html_args=html_args, **kwargs)
Construct ==
    /\ html.stage = "none"
    /\ \E kwargs \in SourceKwargs, html_args \in HtmlArgs :
        /\ html' = init(kwargs, html_args)
        /\ UNCHANGED <<renderer, fetched, calls, taxVars, invoiceVars>>

\* renderer.render(filepath), up to the call of HTML(**html_args)
Render ==
    /\ html.stage = "constructed"
    /\ html' = prepare_html_args(html)
    /\ UNCHANGED <<renderer, fetched, calls, taxVars, invoiceVars>>

RenderNext == Construct \/ Render

(***************************************************************************)
(* Article and Invoice                                                     *)
(***************************************************************************)
\* how many articles an invoice takes
MaxArticles == 2

\* Article.__init__ stores its arguments as they are given
Article(article_id, name, tax_category, net, tax, gross, description) ==
    [article_id |-> article_id, name |-> name, tax_category |-> tax_category,
     net |-> net, tax |-> tax, gross |-> gross, description |-> description]

NoArticle == Article(0, "", "", Zero, Zero, Zero, "")

CategoryNames == {"19%", "7%"}
CategoryRates == {Dec(19, 2), Dec(7, 2)}

\* the articles handed to add_article: seats of two events, priced with
\* compute_gross, and one article whose gross value is not net + tax
Articles ==
    { Article(id, "ticket", "19%", Dec(100, 0), Dec(19, 0), Dec(119, 0), d) :
          id \in {1, 2}, d \in {"seat 1", "seat 2"} }
    \cup { Article(id, "book", "7%", Dec(100, 0), Dec(7, 0), Dec(107, 0), "") :
          id \in {1, 2} }
    \cup { Article(2, "ticket", "19%", Dec(100, 0), Dec(19, 0), Dec(120, 0), "seat 3") }

EmptyDict == [k \in {} |-> <<>>]

\* raise KeyError(message % str(arg))
KeyError(message, arg) == [type |-> "KeyError", message |-> message, arg |-> arg]
NoException == [type |-> "", message |-> "", arg |-> ""]

\* defaultdict(list).__getitem__ followed by append: a missing key gets a list
AppendTo(dict, key, value) ==
    [k \in DOMAIN dict \cup {key} |->
        IF k = key
        THEN Append(IF key \in DOMAIN dict THEN dict[key] ELSE <<>>, value)
        ELSE dict[k]]

\* defaultdict(list).__getitem__ alone: a missing key gets an empty list
Touch(dict, key) ==
    [k \in DOMAIN dict \cup {key} |-> IF k \in DOMAIN dict THEN dict[k] ELSE <<>>]

Invoice(categories, arts, exception) ==
    [tax_categories |-> categories, articles |-> arts, raised |-> exception]

\* a bug: the list of the article id is looked up before the check
add_article_lookup_first(self, article) ==
    IF article.tax_category \notin DOMAIN self.tax_categories
    THEN Invoice(self.tax_categories, Touch(self.articles, article.article_id),
                 KeyError("Tax category \"%s\" is not registered in this invoice",
                          article.tax_category))
    ELSE Invoice(self.tax_categories,
                 AppendTo(self.articles, article.article_id, article), NoException)

\* not the code: an add_article that refuses an article whose gross value is
\* not net + tax
add_article_checks_gross(self, article) ==
    IF article.tax_category \notin DOMAIN self.tax_categories
    THEN Invoice(self.tax_categories, self.articles,
                 KeyError("Tax category \"%s\" is not registered in this invoice",
                          article.tax_category))
    ELSE IF article.gross # Add(article.net, article.tax)
    THEN Invoice(self.tax_categories, self.articles,
                 [type |-> "ValueError", message |-> "gross is not net + tax",
                  arg |-> ""])
    ELSE Invoice(self.tax_categories,
                 AppendTo(self.articles, article.article_id, article), NoException)

\* a bug: the tax category of the article is not looked up
add_article_unchecked(self, article) ==
    Invoice(self.tax_categories,
            AppendTo(self.articles, article.article_id, article), NoException)

\* Invoice.add_article
add_article(self, article) ==
    IF article.tax_category \notin DOMAIN self.tax_categories
    THEN Invoice(self.tax_categories, self.articles,
                 KeyError("Tax category \"%s\" is not registered in this invoice",
                          article.tax_category))
    ELSE Invoice(self.tax_categories,
                 AppendTo(self.articles, article.article_id, article), NoException)

\* Invoice.add_tax_category
add_tax_category(self, name, tax_rate) ==
    Invoice([k \in DOMAIN self.tax_categories \cup {name} |->
                IF k = name THEN tax_rate ELSE self.tax_categories[k]],
            self.articles, NoException)

RECURSIVE SumLen(_, _)
SumLen(dict, keys) ==
    IF keys = {} THEN 0
    ELSE LET k == CHOOSE x \in keys : TRUE
         IN  Len(dict[k]) + SumLen(dict, keys \ {k})

\* the number of articles in the invoice
Count(dict) == SumLen(dict, DOMAIN dict)

NoOp == [op |-> "", category |-> "", article |-> NoArticle, raised |-> NoException]

\* The caller holds a dict d.  same: the invoice was constructed with
\* tax_categories=d, and self.tax_categories is d.  built: a second invoice
\* was constructed with tax_categories=d; other is its tax_categories.
\* acted: what the caller did to d in the last step, if the caller took it.
Caller(d, same, built, other, acted) ==
    [d |-> d, same |-> same, built |-> built, other |-> other, acted |-> acted]

\* the tax_categories argument of Invoice.__init__
NoArgument == [given |-> FALSE, dict |-> EmptyDict]
Argument(dict) == [given |-> TRUE, dict |-> dict]

\* Invoice.__init__: None is replaced by a new dict; a dict that is given is
\* assigned as it is, so that self.tax_categories is the dict of the caller
init_tax_categories(argument) ==
    IF ~argument.given
    THEN [dict |-> EmptyDict, same |-> FALSE]
    ELSE [dict |-> argument.dict, same |-> TRUE]

\* self.tax_categories of the first invoice has become dict: what the caller
\* reads through d and through the second invoice
AfterInvoiceWrite(dict) ==
    Caller(IF caller.same THEN dict ELSE caller.d,
           caller.same, caller.built,
           IF caller.same /\ caller.built THEN dict ELSE caller.other,
           "")

\* Invoice(issuer, recipient, date, payment_information)
InvoiceIdle ==
    /\ tax_categories = EmptyDict
    /\ articles = EmptyDict
    /\ last = NoOp
    /\ caller = Caller(EmptyDict, FALSE, FALSE, EmptyDict, "")

\* Invoice.__init__, without tax_categories or with a dict of them
InvoiceInit ==
    \E d \in {EmptyDict, [k \in {"19%"} |-> Dec(19, 2)]} :
        \E argument \in {NoArgument, Argument(d)} :
            LET self == init_tax_categories(argument)
            IN  /\ tax_categories = self.dict
                /\ articles = EmptyDict
                /\ last = NoOp
                /\ caller = Caller(d, self.same, FALSE, EmptyDict, "")

AddTaxCategory ==
    \E name \in CategoryNames, tax_rate \in CategoryRates :
        LET self == add_tax_category(Invoice(tax_categories, articles, NoException),
                                     name, tax_rate)
        IN  /\ tax_categories' = self.tax_categories
            /\ articles' = self.articles
            /\ last' = [op |-> "add_tax_category", category |-> name,
                        article |-> NoArticle, raised |-> self.raised]
            /\ caller' = AfterInvoiceWrite(self.tax_categories)
            /\ UNCHANGED <<taxVars, gateVars>>

AddArticle ==
    \E article \in Articles :
        /\ article.tax_category \in DOMAIN tax_categories
              => Count(articles) < MaxArticles
        /\ LET self == add_article(Invoice(tax_categories, articles, NoException),
                                   article)
           IN  /\ tax_categories' = self.tax_categories
               /\ articles' = self.articles
               /\ last' = [op |-> "add_article", category |-> article.tax_category,
                           article |-> article, raised |-> self.raised]
               /\ caller' = AfterInvoiceWrite(self.tax_categories)
        /\ UNCHANGED <<taxVars, gateVars>>

InvoiceNext ==
    \/ AddTaxCategory
    \/ AddArticle

\* The caller writes its dict d.  If self.tax_categories of an invoice is d,
\* the invoice reads what was written.
AfterCallerWrite(dict, acted) ==
    /\ caller' = Caller(dict, caller.same, caller.built,
                        IF caller.built THEN dict ELSE caller.other, acted)
    /\ tax_categories' = IF caller.same THEN dict ELSE tax_categories
    /\ UNCHANGED <<articles, last, taxVars, gateVars>>

\* d[name] = tax_rate
CallerSetsKey ==
    \E name \in CategoryNames, tax_rate \in CategoryRates :
        AfterCallerWrite([k \in DOMAIN caller.d \cup {name} |->
                             IF k = name THEN tax_rate ELSE caller.d[k]], "set")

\* del d[name]
CallerDeletesKey ==
    \E name \in DOMAIN caller.d :
        AfterCallerWrite([k \in DOMAIN caller.d \ {name} |-> caller.d[k]], "delete")

\* Invoice(issuer, recipient, date, payment_information, tax_categories=d),
\* a second invoice
CallerConstructsSecond ==
    /\ ~caller.built
    /\ caller' = Caller(caller.d, caller.same, TRUE,
                        init_tax_categories(Argument(caller.d)).dict, "construct")
    /\ UNCHANGED <<tax_categories, articles, last, taxVars, gateVars>>

CallerNext ==
    \/ AddTaxCategory
    \/ AddArticle
    \/ CallerSetsKey
    \/ CallerDeletesKey
    \/ CallerConstructsSecond

(***************************************************************************)
(* The specifications                                                      *)
(***************************************************************************)
InitTax == TaxInit /\ GateIdle /\ InvoiceIdle
SpecTax == InitTax /\ [][TaxNext]_vars

InitGate == GateInit /\ TaxInit /\ InvoiceIdle
SpecGate == InitGate /\ [][GateNext]_vars

InitRender == RenderInit /\ TaxInit /\ InvoiceIdle
SpecRender == InitRender /\ [][RenderNext]_vars

InitInvoice == InvoiceInit /\ TaxInit /\ GateIdle
SpecInvoice == InitInvoice /\ [][InvoiceNext]_vars

\* the invoice together with the code that holds the dict it was given
SpecCaller == InitInvoice /\ [][CallerNext]_vars

(***************************************************************************)
(* Properties of compute_gross and compute_taxes, checked under SpecTax    *)
(***************************************************************************)
\* the value of a quantize argument, and the unit of its exponent
StepValue(q) == Norm(q.coef, Pow10(q.digits))
Ulp(q) == Dec(1, q.digits)

IsMultiple(r, unit) == Div(r, unit).d = 1
Distance(x, r) == AbsDec(Sub(x, r))
\* r is a multiple of unit, and no multiple of unit is nearer to x
IsNearest(x, unit, r) ==
    /\ IsMultiple(r, unit)
    /\ Leq(Mul(Dec(2, 0), Distance(x, r)), unit)
IsTie(x, unit, r) == Mul(Dec(2, 0), Distance(x, r)) = unit
\* round-half-up: of the two nearest multiples, the one farther from zero
IsHalfUp(x, unit, r) ==
    /\ IsNearest(x, unit, r)
    /\ IsTie(x, unit, r) => Leq(AbsDec(x), AbsDec(r))
\* round-half-even: of the two nearest multiples, the even one
IsHalfEven(x, unit, r) ==
    /\ IsNearest(x, unit, r)
    /\ IsTie(x, unit, r) => Div(r, unit).n % 2 = 0

\* C1: compute_gross returns a gross value that is exactly the sum of the net
\* value and the taxes it returns, with and without quantization.
C1_GrossIsSumOfReturned ==
    call.fn = "compute_gross" =>
        /\ ret.raised = ""
        /\ ret.gross = Add(ret.net, ret.taxes)

\* compute_gross has rounded both the net value and the taxes to cents, and
\* rounding their exact sum would have given another gross value
C1_Witness ==
    /\ call.fn = "compute_gross"
    /\ call.quantize = Step(1, 2)
    /\ ret.net # call.amount
    /\ ret.taxes # Mul(call.amount, call.tax_rate)
    /\ ret.gross # Quantize(Add(call.amount, Mul(call.amount, call.tax_rate)),
                            call.quantize)

\* C2, as claimed: with a quantization step q, compute_gross returns net and
\* net * tax_rate each rounded to the nearest multiple of q, a value halfway
\* between two multiples going to the one farther from zero.
C2_RoundsHalfUp ==
    (call.fn = "compute_gross" /\ call.quantize # NoQuantize) =>
        /\ IsHalfUp(call.amount, StepValue(call.quantize), ret.net)
        /\ IsHalfUp(Mul(call.amount, call.tax_rate), StepValue(call.quantize),
                    ret.taxes)

\* C2, amended: with a quantization step q, compute_gross returns net and
\* net * tax_rate each rounded to the nearest multiple of 10^exponent(q), a
\* value halfway between two multiples going to the even one.
C2_RoundsHalfEven ==
    (call.fn = "compute_gross" /\ call.quantize # NoQuantize) =>
        /\ IsHalfEven(call.amount, Ulp(call.quantize), ret.net)
        /\ IsHalfEven(Mul(call.amount, call.tax_rate), Ulp(call.quantize),
                      ret.taxes)

\* compute_gross(Decimal('0.125'), Decimal('0.5'), Decimal('0.01')): the net
\* value and the taxes 0.0625 -> 0.06 are rounded, the net value from a tie
C2_Witness ==
    /\ call.fn = "compute_gross"
    /\ call.amount = Dec(125, 3)
    /\ call.tax_rate = Dec(50, 2)
    /\ call.quantize = Step(1, 2)
    /\ ret.net = Dec(12, 2)
    /\ ret.taxes = Dec(6, 2)

\* C3: compute_taxes on the gross value returned by compute_gross, with the
\* same tax rate and quantization step q, returns a gross value that differs
\* from it by at most q.
C3_RoundTripWithinOneStep ==
    orig # NoResult =>
        /\ ret.raised = ""
        /\ Leq(Distance(ret.gross, orig.gross), StepValue(call.quantize))

\* the round trip of net 100.00 at 19% to cents: 119.00 and back
C3_Witness ==
    /\ orig = Triple(Dec(100, 0), Dec(19, 0), Dec(119, 0))
    /\ call = [fn |-> "compute_taxes", amount |-> Dec(119, 0),
               tax_rate |-> Dec(19, 2), quantize |-> Step(1, 2)]
    /\ ret.raised = ""

\* C4: without a tax rate compute_taxes returns (gross, 0, gross), where gross
\* is the given value rounded to the quantization step, or the given value
\* itself if there is no quantization step.
C4_NoTaxRate ==
    (call.fn = "compute_taxes" /\ call.tax_rate = None) =>
        /\ ret.raised = ""
        /\ ret.net = ret.gross
        /\ ret.taxes = Zero
        /\ IF call.quantize = NoQuantize
           THEN ret.gross = call.amount
           ELSE IsNearest(call.amount, Ulp(call.quantize), ret.gross)

\* compute_taxes(Decimal('0.126'), None, Decimal('0.01')) has rounded
C4_Witness ==
    /\ call = [fn |-> "compute_taxes", amount |-> Dec(126, 3), tax_rate |-> None,
               quantize |-> Step(1, 2)]
    /\ ret = Triple(Dec(13, 2), Zero, Dec(13, 2))

\* C14: compute_taxes with a tax rate of -1 never returns a triple: it ends
\* in the arithmetic error of the division by 1 + tax_rate = 0, for every gross
\* value and quantization (decimal.DivisionByZero, and for a gross value of 0
\* decimal.InvalidOperation, both of them ArithmeticError).
C14_RateMinusOneRaises ==
    (call.fn = "compute_taxes" /\ call.tax_rate = Dec(-1, 0)) =>
        /\ ret.raised # ""
        /\ ret.raised =
              (IF call.amount = Zero THEN "InvalidOperation" ELSE "DivisionByZero")

\* compute_taxes(Decimal('100'), Decimal('-1'), Decimal('0.01')) has raised
C14_Witness ==
    /\ call = [fn |-> "compute_taxes", amount |-> Dec(100, 0),
               tax_rate |-> Dec(-1, 0), quantize |-> Step(1, 2)]
    /\ ret = Raised("DivisionByZero")

(***************************************************************************)
(* Properties of WeasyRenderer.fetch_url, checked under SpecGate           *)
(***************************************************************************)
Called == fetched.n > 0
NoFetcher == renderer.url_fetcher = "None"
FileUrl == StartsWith(fetched.url, FilePrefix)
ResourceUrl == StartsWith(fetched.url, ResourcePrefix)
\* the locator without its prefix "resource:"
KeyOfUrl == SubSeq(fetched.url, Len(ResourcePrefix) + 1, Len(fetched.url))
\* the call fetched one collaborator call, and returned what that returned
Delegated(fn, arg, kwargs) ==
    /\ fetched.outcome.kind = "return"
    /\ fetched.outcome.value =
          [source |-> "call", fn |-> fn, arg |-> arg, kwargs |-> kwargs]
    /\ fetched.outcome.invoked = <<[fn |-> fn, arg |-> arg, kwargs |-> kwargs]>>
\* the call raised, and called no collaborator
Failed(message) ==
    /\ fetched.outcome.kind = "raise"
    /\ fetched.outcome.error.message = message
    /\ fetched.outcome.invoked = <<>>

\* C5: with a url_fetcher set, fetch_url returns what url_fetcher returns for
\* the locator as given, for every locator and whatever allow_files,
\* fallback_default and resources are; nothing but url_fetcher is ever called.
C5_OverrideDelegates ==
    (Called /\ ~NoFetcher) =>
        /\ Delegated(renderer.url_fetcher, fetched.url, renderer.fetcher_args)
        /\ \A i \in DOMAIN calls : calls[i].fn = renderer.url_fetcher

\* a file:// locator is fetched by the url_fetcher although allow_files is off
C5_Witness ==
    /\ Called
    /\ renderer.url_fetcher = "custom_fetcher"
    /\ ~renderer.allow_files
    /\ fetched.url = FilePrefix \o EtcPasswd
    /\ fetched.outcome.kind = "return"

\* C6: without a url_fetcher, a locator starting with file:// is refused when
\* allow_files is false and handed to the default fetcher when it is true,
\* whatever fallback_default and resources are.
C6_FileRule ==
    (Called /\ NoFetcher /\ FileUrl) =>
        IF renderer.allow_files
        THEN Delegated("default_url_fetcher", fetched.url, renderer.fetcher_args)
        ELSE Failed("Access denied to local file \"%s\"")

\* file://resource:logo.png is refused although fallback_default is on and
\* the resources hold logo.png
C6_Witness ==
    /\ Called /\ NoFetcher
    /\ ~renderer.allow_files /\ renderer.fallback_default
    /\ LogoKey \in DOMAIN renderer.resources
    /\ fetched.url = FilePrefix \o ResourcePrefix \o LogoKey
    /\ fetched.outcome.kind = "raise"

\* C7: without a url_fetcher, a locator "resource:" + key fails as not found
\* if key is no key of resources, returns the mapped descriptor if that is not
\* callable, and returns fn(key) if the mapped value is a callable fn; the
\* default fetcher is not called.
C7_ResourceRule ==
    (Called /\ NoFetcher /\ ResourceUrl) =>
        IF KeyOfUrl \notin DOMAIN renderer.resources
        THEN Failed("Resource \"%s\" not found")
        ELSE IF renderer.resources[KeyOfUrl].callable
        THEN Delegated(renderer.resources[KeyOfUrl].name, KeyOfUrl, {})
        ELSE /\ fetched.outcome.kind = "return"
             /\ fetched.outcome.value =
                   [source |-> "resources", fn |-> renderer.resources[KeyOfUrl].name,
                    arg |-> <<>>, kwargs |-> {}]
             /\ fetched.outcome.invoked = <<>>

\* resource:logo.png is produced by find_logo("logo.png") with allow_files
\* and fallback_default on
C7_Witness ==
    /\ Called /\ NoFetcher
    /\ renderer.allow_files /\ renderer.fallback_default
    /\ fetched.url = ResourcePrefix \o LogoKey
    /\ fetched.outcome.kind = "return"
    /\ fetched.outcome.value.fn = "find_logo"
    /\ fetched.outcome.value.arg = LogoKey

\* C8: without a url_fetcher, a locator that starts with neither file:// nor
\* resource: is handed to the default fetcher if fallback_default is true and
\* refused otherwise; a renderer with allow_files and fallback_default false
\* never calls the default fetcher.
C8_FallbackRule ==
    /\ (Called /\ NoFetcher /\ ~FileUrl /\ ~ResourceUrl) =>
          IF renderer.fallback_default
          THEN Delegated("default_url_fetcher", fetched.url, renderer.fetcher_args)
          ELSE Failed("Invalid url: \"%s\"")
    /\ (NoFetcher /\ ~renderer.allow_files /\ ~renderer.fallback_default) =>
          \A i \in DOMAIN calls : calls[i].fn # "default_url_fetcher"

\* https://example.com/x is refused although allow_files is on
C8_Witness ==
    /\ Called /\ NoFetcher
    /\ renderer.allow_files /\ ~renderer.fallback_default
    /\ fetched.url = ExampleUrl
    /\ fetched.outcome.kind = "raise"

\* the two kinds of failure of the resource gate
ErrorKind(error) ==
    IF error.message = "Resource \"%s\" not found" THEN "NotFound" ELSE "AccessDenied"

\* C9, as claimed: every failure of fetch_url is an access-denied or a
\* not-found error, and carries the locator as it was given to fetch_url.
C9_ErrorsCarryLocator ==
    (Called /\ fetched.outcome.kind = "raise") =>
        /\ ErrorKind(fetched.outcome.error) \in {"AccessDenied", "NotFound"}
        /\ fetched.outcome.error.arg = fetched.url

\* C9, amended: every failure of fetch_url is a ValueError with one of three
\* messages; the access-denied and the invalid-url message carry the locator
\* as it was given, the not-found message carries the key, the locator
\* without its prefix "resource:".
C9_ErrorsCarryLocatorOrKey ==
    (Called /\ fetched.outcome.kind = "raise") =>
        /\ fetched.outcome.error.type = "ValueError"
        /\ \/ /\ fetched.outcome.error.message = "Access denied to local file \"%s\""
              /\ fetched.outcome.error.arg = fetched.url
           \/ /\ fetched.outcome.error.message = "Invalid url: \"%s\""
              /\ fetched.outcome.error.arg = fetched.url
           \/ /\ fetched.outcome.error.message = "Resource \"%s\" not found"
              /\ ResourcePrefix \o fetched.outcome.error.arg = fetched.url

\* resource:missing.png is not found, and the error names missing.png
C9_Witness ==
    /\ Called
    /\ fetched.url = ResourcePrefix \o MissingKey
    /\ fetched.outcome.kind = "raise"
    /\ fetched.outcome.error.arg = MissingKey

\* the fetch of a locator "resource:" + key whose value in resources is a
\* producer, by a renderer without url_fetcher
ProducerFetch(self, url) ==
    LET key == SubSeq(url, Len(ResourcePrefix) + 1, Len(url))
    IN  /\ self.url_fetcher = "None"
        /\ ~StartsWith(url, FilePrefix)
        /\ StartsWith(url, ResourcePrefix)
        /\ key \in DOMAIN self.resources
        /\ self.resources[key].callable

\* C15: a call of fetch_url, returning or raising, on any locator, leaves
\* resources, allow_files, fallback_default, url_fetcher and fetcher_args of
\* the renderer as they were; every fetch of "resource:" + key whose value is a
\* producer returns after exactly one more call producer(key), whatever was
\* fetched before, and every other fetch calls no producer.
C15_GateIsStateless ==
    [][/\ renderer' = renderer
       /\ fetched'.n = fetched.n + 1
       /\ LET url == fetched'.url
              key == SubSeq(url, Len(ResourcePrefix) + 1, Len(url))
          IN  IF ProducerFetch(renderer, url)
              THEN /\ fetched'.outcome.kind = "return"
                   /\ calls' = Append(calls,
                         Invocation(renderer.resources[key].name, key, {}))
                   /\ renderer'.resources[key] = Producer(renderer.resources[key].name)
              ELSE \/ calls' = calls
                   \/ /\ Len(calls') = Len(calls) + 1
                      /\ SubSeq(calls', 1, Len(calls)) = calls
                      /\ calls'[Len(calls')].fn \in
                            {"default_url_fetcher", "custom_fetcher"}]_vars

\* resource:logo.png is fetched twice: find_logo("logo.png") has been called
\* twice, and resources still maps logo.png to find_logo
C15_Witness ==
    /\ fetched.n = 2
    /\ fetched.url = ResourcePrefix \o LogoKey
    /\ fetched.outcome.kind = "return"
    /\ calls = <<Invocation("find_logo", LogoKey, {}),
                 Invocation("find_logo", LogoKey, {})>>
    /\ renderer.resources[LogoKey] = Producer("find_logo")

(***************************************************************************)
(* Properties of the construction of WeasyRenderer, checked under          *)
(* SpecRender                                                              *)
(***************************************************************************)
\* C16: construction raises ValueError unless exactly one of filename, url,
\* file_obj and string is given; every renderer that was constructed has
\* exactly one of the four attributes set (not None), whatever the value given
\* for the keyword; and render never raises ValueError when it prepares the
\* arguments of HTML.
C16_ConstructedRendererRenders ==
    /\ html.stage = "init_raised" =>
          /\ html.error.type = "ValueError"
          /\ Cardinality(DOMAIN html.kwargs) # 1
    /\ html.stage \in {"constructed", "render_raised", "rendered"} =>
          /\ Cardinality(DOMAIN html.kwargs) = 1
          /\ Cardinality({k \in SourceKeys : ~html.sources[k].is_none}) = 1
    /\ html.stage # "render_raised"

(***************************************************************************)
(* Properties of Invoice, checked under SpecInvoice                        *)
(***************************************************************************)
\* C10: add_article with an article whose tax category is not registered
\* raises the KeyError that names the category and leaves the invoice as it
\* was: the article is not in the article mapping, no entry is created for
\* its article id, and tax_categories is unchanged.
C10_FailedAddLeavesInvoice ==
    [][(last'.op = "add_article"
            /\ last'.article.tax_category \notin DOMAIN tax_categories) =>
          /\ last'.raised =
                KeyError("Tax category \"%s\" is not registered in this invoice",
                         last'.article.tax_category)
          /\ tax_categories' = tax_categories
          /\ DOMAIN articles' = DOMAIN articles
          /\ articles' = articles
          /\ \A k \in DOMAIN articles' : \A i \in DOMAIN articles'[k] :
                articles'[k][i] # last'.article]_vars

\* an article of category 7% was refused by an invoice that registers 19%
\* alone and holds no article of that id
C10_Witness ==
    /\ last.op = "add_article"
    /\ last.category = "7%"
    /\ last.raised.type = "KeyError"
    /\ DOMAIN tax_categories = {"19%"}
    /\ last.article.article_id \notin DOMAIN articles

\* C11: after any sequence of add_tax_category and add_article calls every
\* stored article has a tax category that is a key of tax_categories, and
\* each list of the mapping holds its articles in the order they were added:
\* a call keeps what the lists hold, and a successful add_article puts its
\* article at the end of the list of its article id.
C11_StoredArticlesRegisteredInOrder ==
    /\ [](\A k \in DOMAIN articles : \A i \in DOMAIN articles[k] :
            /\ articles[k][i].tax_category \in DOMAIN tax_categories
            /\ articles[k][i].article_id = k)
    /\ [][/\ \A k \in DOMAIN articles :
                /\ k \in DOMAIN articles'
                /\ Len(articles'[k]) >= Len(articles[k])
                /\ SubSeq(articles'[k], 1, Len(articles[k])) = articles[k]
          /\ (last'.op = "add_article" /\ last'.raised = NoException
                 /\ <<articles, last>> # <<articles', last'>>) =>
                LET id == last'.article.article_id
                IN  /\ id \in DOMAIN articles'
                    /\ articles'[id] =
                          (IF id \in DOMAIN articles THEN articles[id] ELSE <<>>)
                              \o <<last'.article>>]_vars

\* two seats of one event were added one after the other, and a failed
\* add_article came last
C11_Witness ==
    /\ 1 \in DOMAIN articles
    /\ Len(articles[1]) = 2
    /\ articles[1][1].description = "seat 2"
    /\ articles[1][2].description = "seat 1"
    /\ last.op = "add_article"
    /\ last.raised.type = "KeyError"

\* C13, as claimed: every article in the article mapping of an invoice has
\* gross = net + tax.
C13_StoredGrossIsNetPlusTax ==
    \A k \in DOMAIN articles : \A i \in DOMAIN articles[k] :
        articles[k][i].gross = Add(articles[k][i].net, articles[k][i].tax)

\* C13, amended: add_article accepts every article whose tax category is
\* registered, whatever its net, tax and gross values are, and stores it with
\* the values it was given.
C13_StoredAsGiven ==
    (last.op = "add_article" /\ last.category \in DOMAIN tax_categories) =>
        /\ last.raised = NoException
        /\ last.article.article_id \in DOMAIN articles
        /\ LET list == articles[last.article.article_id]
           IN  /\ Len(list) > 0
               /\ list[Len(list)] = last.article

\* the invoice holds an article with net 100, tax 19 and gross 120
C13_Witness ==
    /\ last.op = "add_article"
    /\ last.raised = NoException
    /\ last.article.gross # Add(last.article.net, last.article.tax)
    /\ 2 \in DOMAIN articles
    /\ articles[2][Len(articles[2])].gross = Dec(120, 0)

(***************************************************************************)
(* Properties of Invoice and its caller, checked under SpecCaller          *)
(***************************************************************************)
\* C12: an invoice owns its tax-category registry: a change the caller makes
\* to the dict d it passed does not change the invoice's tax_categories,
\* add_tax_category on the invoice does not change d, and it does not change
\* the tax_categories of a second invoice constructed from d.
C12_InvoiceOwnsRegistry ==
    [][/\ caller'.acted \in {"set", "delete"} => tax_categories' = tax_categories
       /\ (caller'.acted = "" /\ last'.op = "add_tax_category") =>
             /\ caller'.d = caller.d
             /\ caller'.other = caller.other]_vars
====
